---- MODULE Spec2Model ----
(***************************************************************************)
(* Model of email_analyzer.py: the windowed, paginated fetch loop           *)
(* (fetch_recent_emails), the retrying extraction call                      *)
(* (analyze_email_openai), the priority score (compute_priority) and the    *)
(* part of main() that sequences fetch -> extract -> score -> sort.         *)
(*                                                                          *)
(* Text is modelled as a sequence of one-character strings so that          *)
(* lower(), strip() and the substring test `word in text` are computed.     *)
(***************************************************************************)
EXTENDS Integers, Sequences, FiniteSets

\* ------------------------------------------------------------------------
\* Bounds of the model

\* largest desired_count explored
MaxDesired == 2
\* largest max_fetch explored
MaxFetch == 4
\* largest page the modelled mail source returns from one list call
MaxPage == 3

\* ------------------------------------------------------------------------
\* Program constants

\* params["maxResults"]: the page size requested from the mail source
PageSize == 50
\* analyze_email_openai: max_retries
max_retries == 3
\* analyze_email_openai: initial wait_time, seconds
InitialWait == 2

\* ------------------------------------------------------------------------
\* Text

KwUrgent == <<"u","r","g","e","n","t">>
KwAsap == <<"a","s","a","p">>
KwImmediately == <<"i","m","m","e","d","i","a","t","e","l","y">>
KwCritical == <<"c","r","i","t","i","c","a","l">>
KwEmergency == <<"e","m","e","r","g","e","n","c","y">>
KwDeadline == <<"d","e","a","d","l","i","n","e">>
KwRush == <<"r","u","s","h">>
VipMarker == <<"p","w","c">>
DomainAcme == <<"@","a","c","m","e",".","c","o","m">>
DomainImportant == <<"@","i","m","p","o","r","t","a","n","t","-","c","l","i","e","n","t",".","c","o","m">>
NoSubject == <<"N","o"," ","S","u","b","j","e","c","t">>
UnknownSender == <<"U","n","k","n","o","w","n"," ","S","e","n","d","e","r">>
KeyMissingText == <<"A","P","I"," ","k","e","y"," ","m","i","s","s","i","n","g"," ","-"," ","u","n","a","b","l","e"," ","t","o"," ","a","n","a","l","y","z","e"," ","e","m","a","i","l"," ","c","o","n","t","e","n","t",".">>
ErrorPrefix == <<"E","r","r","o","r"," ","a","n","a","l","y","z","i","n","g"," ","e","m","a","i","l",":"," ">>
RateLimitedText == <<"R","a","t","e"," ","l","i","m","i","t"," ","r","e","a","c","h","e","d">>
OtherFailureText == <<"C","o","n","n","e","c","t","i","o","n"," ","r","e","s","e","t">>
FromPwc == <<"o","p","s","@","p","w","c",".","c","o","m">>
FromAcme == <<"B","o","b"," ","<","b","o","b","@","a","c","m","e",".","c","o","m",">">>
FromBoth == <<"P","w","C"," ","<","o","p","s","@","a","c","m","e",".","c","o","m",">">>
FromClient == <<"x","@","I","m","p","o","r","t","a","n","t","-","C","l","i","e","n","t",".","c","o","m">>
FromOther == <<"a","@","b",".","o","r","g">>
SubjReport == <<"R","e","p","o","r","t">>
SubjUrgent == <<"U","R","G","E","N","T"," ","d","e","a","d","l","i","n","e">>
SubjCrushed == <<"c","r","u","s","h","e","d",","," ","a","s","a","p">>
GenAsap == <<" ","p","l","e","a","s","e"," ","r","e","s","p","o","n","d"," ","A","S","A","P","\n">>
GenPlain == <<" ","I","n","v","o","i","c","e"," ","r","e","q","u","e","s","t"," ","\n">>
GenMany == <<"C","r","i","t","i","c","a","l"," ","e","m","e","r","g","e","n","c","y",":"," ","r","u","s","h"," ","i","m","m","e","d","i","a","t","e","l","y">>

UpperChars == <<"A","B","C","D","E","F","G","H","I","J","K","L","M","N","O","P","Q","R","S","T","U","V","W","X","Y","Z">>
LowerChars == <<"a","b","c","d","e","f","g","h","i","j","k","l","m","n","o","p","q","r","s","t","u","v","w","x","y","z">>
Whitespace == {" ", "\n", "\t"}

\* str.lower() on one character
LowerChar(c) ==
  IF \E j \in 1..Len(UpperChars) : UpperChars[j] = c
  THEN LowerChars[CHOOSE j \in 1..Len(UpperChars) : UpperChars[j] = c]
  ELSE c

\* str.lower()
Lower(s) == [j \in 1..Len(s) |-> LowerChar(s[j])]

\* `w in s` for strings: w occurs as a contiguous substring of s
Contains(s, w) ==
  \E p \in 1..(Len(s) - Len(w) + 1) : SubSeq(s, p, p + Len(w) - 1) = w

\* str.strip(): drop leading and trailing whitespace
Strip(s) ==
  LET keep == {j \in 1..Len(s) : s[j] \notin Whitespace}
  IN IF keep = {} THEN <<>>
     ELSE LET lo == CHOOSE j \in keep : \A m \in keep : j <= m
              hi == CHOOSE j \in keep : \A m \in keep : j >= m
          IN SubSeq(s, lo, hi)

\* ------------------------------------------------------------------------
\* compute_priority

urgency_keywords ==
  <<KwUrgent, KwAsap, KwImmediately, KwCritical, KwEmergency, KwDeadline, KwRush>>

priority_domains == <<DomainAcme, DomainImportant>>

\* sum(1 for word in urgency_keywords if word in text.lower())
KeywordCount(text) ==
  Cardinality({j \in 1..Len(urgency_keywords) :
                   Contains(Lower(text), urgency_keywords[j])})

\* the bonus with the two sender tests in the opposite order
BonusDomainFirst(from_field) ==
  IF \E j \in 1..Len(priority_domains) : Contains(from_field, priority_domains[j])
  THEN 50
  ELSE IF Contains(from_field, VipMarker) THEN 100 ELSE 0

\* bonus for high-priority senders; from_field is already lower-cased
Bonus(from_field) ==
  IF Contains(from_field, VipMarker) THEN 100
  ELSE IF \E j \in 1..Len(priority_domains) : Contains(from_field, priority_domains[j])
       THEN 50
       ELSE 0

compute_priority(email, extracted_info) ==
  LET urgency_score == KeywordCount(extracted_info)
      from_field == Lower(email.from)
      bonus == Bonus(from_field)
      subject_urgency == KeywordCount(email.subject)
  IN bonus + (urgency_score * 2) + (subject_urgency * 3)

\* ------------------------------------------------------------------------
\* analyze_email_openai: results and failures of the generation call

\* the exceptions the generation call raises: a rate limit, or anything else
ErrorKinds == {"RateLimited", "Other"}

\* str(e) of the exception raised
ErrorText(kind) == IF kind = "RateLimited" THEN RateLimitedText ELSE OtherFailureText

\* response texts the generation service returns
GenTexts == {GenAsap}

\* f"Error analyzing email: {str(e)}"
ErrorResult(kind) == ErrorPrefix \o ErrorText(kind)

\* the retry test stopping one attempt early
ShouldRetryShort(a) == a < max_retries - 2

\* `attempt < max_retries - 1`: another attempt follows this failure
ShouldRetry(a) == a < max_retries - 1

\* a variant that never short-circuits on a missing key
ShortCircuitNever(key) == FALSE

\* `if not openai.api_key`: return the fixed placeholder at once
ShortCircuit(key) == ~key

\* ------------------------------------------------------------------------
\* fetch_recent_emails: the mail source and the window

\* the window passed by main, as datetimes counted in microseconds
start_datetime == 2000000
end_datetime == 4000000

\* datetime.fromtimestamp(internal_date / 1000): milliseconds since the
\* epoch to a datetime with microsecond resolution
FromTimestampMs(internal_date) == internal_date * 1000

\* the window test accepting anything at or after start_datetime
InWindowNoEnd(email_datetime) == start_datetime <= email_datetime

\* start_datetime <= email_datetime <= end_datetime
InWindow(email_datetime) ==
  start_datetime <= email_datetime /\ email_datetime <= end_datetime

\* next((h["value"] for h in headers if h["name"] == name), default)
HeaderValue(headers, name, default) ==
  IF \E j \in 1..Len(headers) : headers[j].name = name
  THEN headers[CHOOSE j \in 1..Len(headers) :
                 /\ headers[j].name = name
                 /\ \A m \in 1..(j - 1) : headers[m].name # name].value
  ELSE default

\* messages().get() responses of the modelled mail source.  internalDate is
\* <<milliseconds since the epoch>>, or <<>> when the key is absent; payload
\* is <<header list>>, or <<>> when the key is absent.
Responses ==
  { [internalDate |-> <<2000>>, snippet |-> "s1",
     payload |-> << <<[name |-> "From", value |-> FromPwc]>> >>],
    [internalDate |-> <<4000>>, snippet |-> "s2",
     payload |-> << <<[name |-> "Subject", value |-> SubjUrgent]>> >>],
    [internalDate |-> <<1999>>, snippet |-> "s3",
     payload |-> << <<[name |-> "Subject", value |-> SubjReport]>> >>],
    [internalDate |-> <<4001>>, snippet |-> "s4",
     payload |-> << <<[name |-> "From", value |-> FromAcme]>> >>],
    [internalDate |-> <<>>, snippet |-> "s5",
     payload |-> << <<>> >>],
    [internalDate |-> <<3000>>, snippet |-> "s6",
     payload |-> <<>>] }

\* int(msg_data.get("internalDate", 0))
InternalDate(msg_data) ==
  IF msg_data.internalDate = <<>> THEN 0 ELSE msg_data.internalDate[1]

\* the try block of the for loop raises on this response: msg_data["payload"]
\* is evaluated only for a message inside the window
ProcessingRaises(msg_data) ==
  /\ InWindow(FromTimestampMs(InternalDate(msg_data)))
  /\ msg_data.payload = <<>>

\* the record appended to matching_emails
MatchRecord(id, msg_data) ==
  [id |-> id,
   subject |-> HeaderValue(msg_data.payload[1], "Subject", NoSubject),
   from |-> HeaderValue(msg_data.payload[1], "From", UnknownSender),
   snippet |-> msg_data.snippet,
   received_at |-> FromTimestampMs(InternalDate(msg_data))]

Min(a, b) == IF a <= b THEN a ELSE b

\* the handler keeping what was matched
ExceptReturnPartial(matched) == matched

\* `except Exception: ... return []` around the whole scan
ExceptReturn(matched) == <<>>

\* a token test that stops after the first page
NoMorePagesAlways(token) == TRUE

\* `if not next_page_token: break`
NoMorePages(token) == ~token

\* the for loop leaving at the first failed message
AfterDetailErrorBreak(idx, n) == TRUE

\* `continue` in the except branch: the for loop ends only after the last
\* identifier of the page
AfterDetailError(idx, n) == idx = n

\* ------------------------------------------------------------------------
\* main: the sort

\* insertion placing an element before the elements of equal priority
InsertBeforeEqual(s, e) ==
  LET before == {j \in 1..Len(s) : s[j].priority > e.priority}
      p == Cardinality(before)
  IN SubSeq(s, 1, p) \o <<e>> \o SubSeq(s, p + 1, Len(s))

\* one step of the stable descending sort: e goes after every element whose
\* priority is at least its own (s is already ordered by non-increasing
\* priority)
InsertByPriority(s, e) ==
  LET before == {j \in 1..Len(s) : s[j].priority >= e.priority}
      p == Cardinality(before)
  IN SubSeq(s, 1, p) \o <<e>> \o SubSeq(s, p + 1, Len(s))

RECURSIVE SortFrom(_, _, _)
SortFrom(seq, j, acc) ==
  IF j > Len(seq) THEN acc
  ELSE SortFrom(seq, j + 1, InsertByPriority(acc, seq[j]))

\* sorted(processed_emails, key=lambda x: x["priority"], reverse=True)
SortedByPriority(seq) == SortFrom(seq, 1, <<>>)

\* an accumulation that leaves out a message whose analysis failed
AppendUnlessFailed(processed, email) ==
  IF \E kind \in ErrorKinds : email.analysis = ErrorPrefix \o ErrorText(kind)
  THEN processed
  ELSE Append(processed, email)

\* processed_emails.append(email)
AppendProcessed(processed, email) == Append(processed, email)

\* ------------------------------------------------------------------------
\* State

VARIABLES
  pc,               \* position in main / fetch_recent_emails / compute_priority
  desired_count,    \* parameter of fetch_recent_emails
  max_fetch,        \* parameter of fetch_recent_emails
  api_key,          \* TRUE iff openai.api_key is non-empty
  matching_emails,  \* fetch_recent_emails local; keeps its last value after the return
  next_page_token,  \* fetch_recent_emails local; TRUE iff a token is held
  fetched_messages, \* fetch_recent_emails local
  messages,         \* identifiers of the page being processed
  result_token,     \* TRUE iff the last list result carries nextPageToken
  i,                \* index of the for loop over messages, from 1
  get_calls,        \* number of messages().get() requests issued
  first_err,        \* identifier of the first message whose try block raised, 0 if none
  list_failed,      \* the list call raised
  emails,           \* main: result of fetch_recent_emails
  processed_emails, \* main local
  k,                \* main: index of the message being processed, from 1
  attempt,          \* analyze_email_openai local
  wait_time,        \* analyze_email_openai local
  gen_calls,        \* ChatCompletion.create calls made by the current extract call
  gen_errors,       \* exceptions raised to the current extract call, in order
  slept,            \* seconds passed to time.sleep by the current extract call
  analysis,         \* main local: result of the last analyze_email_openai call
  call_log,         \* calls main made to analyze_email_openai and compute_priority
  sorted_emails,    \* main local
  sc_email,         \* compute_priority argument
  sc_info,          \* compute_priority argument
  sc_total          \* compute_priority result

fetchVars == <<matching_emails, next_page_token, fetched_messages, messages,
               result_token, i, get_calls, first_err, list_failed>>
genVars == <<attempt, wait_time, gen_calls, gen_errors, slept>>
mainVars == <<emails, processed_emails, k, analysis, call_log, sorted_emails>>
paramVars == <<desired_count, max_fetch, api_key>>
scoreVars == <<sc_email, sc_info, sc_total>>
vars == <<pc, paramVars, fetchVars, genVars, mainVars, scoreVars>>

NoText == <<>>

\* state on entry to fetch_recent_emails, called by main with the values of
\* the UI controls
Init ==
  /\ pc = "while"
  /\ desired_count \in 1..MaxDesired
  /\ max_fetch \in desired_count..MaxFetch
  /\ api_key \in BOOLEAN
  /\ matching_emails = <<>>
  /\ next_page_token = FALSE
  /\ fetched_messages = 0
  /\ messages = <<>>
  /\ result_token = FALSE
  /\ i = 1
  /\ get_calls = 0
  /\ first_err = 0
  /\ list_failed = FALSE
  /\ emails = <<>>
  /\ processed_emails = <<>>
  /\ k = 1
  /\ attempt = 0
  /\ wait_time = InitialWait
  /\ gen_calls = 0
  /\ gen_errors = <<>>
  /\ slept = 0
  /\ analysis = NoText
  /\ call_log = <<>>
  /\ sorted_emails = <<>>
  /\ sc_email = [from |-> NoText, subject |-> NoText]
  /\ sc_info = NoText
  /\ sc_total = 0

\* ------------------------------------------------------------------------
\* fetch_recent_emails

\* `while fetched_messages < max_fetch and len(matching_emails) < desired_count`
LoopCondition ==
  fetched_messages < max_fetch /\ Len(matching_emails) < desired_count

\* the list call returns a page of n identifiers, with or without a
\* continuation token; an empty page leaves the loop
ListPage ==
  /\ pc = "while"
  /\ LoopCondition
  /\ \E n \in 0..Min(PageSize, MaxPage), token \in BOOLEAN :
       /\ messages' = [j \in 1..n |-> fetched_messages + j]
       /\ fetched_messages' = fetched_messages + n
       /\ result_token' = token
       /\ i' = 1
       /\ pc' = IF n = 0 THEN "return" ELSE "for"
  /\ UNCHANGED <<matching_emails, next_page_token, get_calls, first_err, list_failed>>
  /\ UNCHANGED <<paramVars, genVars, mainVars, scoreVars>>

\* the list call raises: control passes to the outer handler
ListPageRaises ==
  /\ pc = "while"
  /\ LoopCondition
  /\ list_failed' = TRUE
  /\ pc' = "except"
  /\ UNCHANGED <<matching_emails, next_page_token, fetched_messages, messages,
                 result_token, i, get_calls, first_err>>
  /\ UNCHANGED <<paramVars, genVars, mainVars, scoreVars>>

\* the while condition is false
LoopExit ==
  /\ pc = "while"
  /\ ~LoopCondition
  /\ pc' = "return"
  /\ UNCHANGED <<paramVars, fetchVars, genVars, mainVars, scoreVars>>

\* one iteration of the for loop whose try block raises: the get call
\* itself, or the processing of its response
GetMessageRaises ==
  /\ pc = "for"
  /\ i <= Len(messages)
  /\ \/ TRUE    \* messages().get(...).execute() raises
     \/ \E msg_data \in Responses : ProcessingRaises(msg_data)
  /\ get_calls' = get_calls + 1
  /\ first_err' = IF first_err = 0 THEN messages[i] ELSE first_err
  /\ IF AfterDetailError(i, Len(messages))
     THEN pc' = "after_for" /\ i' = i
     ELSE pc' = "for" /\ i' = i + 1
  /\ UNCHANGED <<matching_emails, next_page_token, fetched_messages, messages,
                 result_token, list_failed>>
  /\ UNCHANGED <<paramVars, genVars, mainVars, scoreVars>>

\* one iteration of the for loop on a response the try block handles
GetMessage ==
  /\ pc = "for"
  /\ i <= Len(messages)
  /\ \E msg_data \in Responses :
       /\ ~ProcessingRaises(msg_data)
       /\ get_calls' = get_calls + 1
       /\ IF InWindow(FromTimestampMs(InternalDate(msg_data)))
          THEN /\ matching_emails' =
                    Append(matching_emails, MatchRecord(messages[i], msg_data))
               /\ IF Len(matching_emails') >= desired_count \/ i = Len(messages)
                  THEN pc' = "after_for" /\ i' = i
                  ELSE pc' = "for" /\ i' = i + 1
          ELSE /\ matching_emails' = matching_emails
               /\ IF i = Len(messages)
                  THEN pc' = "after_for" /\ i' = i
                  ELSE pc' = "for" /\ i' = i + 1
  /\ UNCHANGED <<next_page_token, fetched_messages, messages, result_token,
                 first_err, list_failed>>
  /\ UNCHANGED <<paramVars, genVars, mainVars, scoreVars>>

\* after the for loop: take the continuation token, leave when there is none
NextPage ==
  /\ pc = "after_for"
  /\ next_page_token' = result_token
  /\ pc' = IF NoMorePages(result_token) THEN "return" ELSE "while"
  /\ UNCHANGED <<matching_emails, fetched_messages, messages, result_token, i,
                 get_calls, first_err, list_failed>>
  /\ UNCHANGED <<paramVars, genVars, mainVars, scoreVars>>

\* the other locals of fetch_recent_emails end with the call
DiscardLocals ==
  /\ next_page_token' = FALSE
  /\ fetched_messages' = 0
  /\ messages' = <<>>
  /\ result_token' = FALSE
  /\ i' = 1
  /\ get_calls' = 0
  /\ first_err' = 0

\* `return matching_emails`
Return ==
  /\ pc = "return"
  /\ emails' = matching_emails
  /\ pc' = "main_if"
  /\ DiscardLocals
  /\ UNCHANGED <<matching_emails, list_failed>>
  /\ UNCHANGED <<paramVars, genVars, scoreVars>>
  /\ UNCHANGED <<processed_emails, k, analysis, call_log, sorted_emails>>

\* the outer handler: `return []`
Except ==
  /\ pc = "except"
  /\ emails' = ExceptReturn(matching_emails)
  /\ pc' = "main_if"
  /\ DiscardLocals
  /\ UNCHANGED <<matching_emails, list_failed>>
  /\ UNCHANGED <<paramVars, genVars, scoreVars>>
  /\ UNCHANGED <<processed_emails, k, analysis, call_log, sorted_emails>>

\* ------------------------------------------------------------------------
\* main, after the fetch

\* `if not emails: ... return`, else the processing loop starts
MainCheck ==
  /\ pc = "main_if"
  /\ IF emails = <<>>
     THEN pc' = "done" /\ UNCHANGED <<processed_emails, k>>
     ELSE pc' = "extract" /\ processed_emails' = <<>> /\ k' = 1
  /\ attempt' = 0
  /\ wait_time' = InitialWait
  /\ gen_calls' = 0
  /\ gen_errors' = <<>>
  /\ slept' = 0
  /\ UNCHANGED <<emails, analysis, call_log, sorted_emails>>
  /\ UNCHANGED <<paramVars, fetchVars, scoreVars>>

\* analyze_email_openai without a key: the fixed placeholder
ExtractNoKey ==
  /\ pc = "extract"
  /\ ShortCircuit(api_key)
  /\ analysis' = KeyMissingText
  /\ call_log' = Append(call_log, <<"extract", emails[k].id>>)
  /\ pc' = "score"
  /\ UNCHANGED <<emails, processed_emails, k, sorted_emails>>
  /\ UNCHANGED <<paramVars, fetchVars, genVars, scoreVars>>

\* one attempt of the retry loop that returns the response text
Generate ==
  /\ pc = "extract"
  /\ ~ShortCircuit(api_key)
  /\ attempt < max_retries
  /\ \E content \in GenTexts :
       analysis' = Strip(content)
  /\ gen_calls' = gen_calls + 1
  /\ call_log' = Append(call_log, <<"extract", emails[k].id>>)
  /\ pc' = "score"
  /\ UNCHANGED <<attempt, wait_time, gen_errors, slept>>
  /\ UNCHANGED <<emails, processed_emails, k, sorted_emails>>
  /\ UNCHANGED <<paramVars, fetchVars, scoreVars>>

\* one attempt of the retry loop that raises: sleep and retry, or return
\* the error text after the last attempt
GenerateRaises ==
  /\ pc = "extract"
  /\ ~ShortCircuit(api_key)
  /\ attempt < max_retries
  /\ \E kind \in ErrorKinds :
       /\ gen_errors' = Append(gen_errors, kind)
       /\ IF ShouldRetry(attempt)
          THEN /\ slept' = slept + wait_time
               /\ wait_time' = wait_time * 2
               /\ attempt' = attempt + 1
               /\ pc' = "extract"
               /\ UNCHANGED <<analysis, call_log>>
          ELSE /\ analysis' = ErrorResult(kind)
               /\ call_log' = Append(call_log, <<"extract", emails[k].id>>)
               /\ pc' = "score"
               /\ UNCHANGED <<slept, wait_time, attempt>>
  /\ gen_calls' = gen_calls + 1
  /\ UNCHANGED <<emails, processed_emails, k, sorted_emails>>
  /\ UNCHANGED <<paramVars, fetchVars, scoreVars>>

\* compute_priority, email.update and processed_emails.append for message k;
\* then the next message, or the sort after the last one.  call_log records
\* each call to analyze_email_openai and compute_priority when it returns.
Score ==
  /\ pc = "score"
  /\ LET email == emails[k]
         priority == compute_priority(email, analysis)
         updated == [id |-> email.id, subject |-> email.subject,
                     from |-> email.from, snippet |-> email.snippet,
                     received_at |-> email.received_at,
                     analysis |-> analysis, priority |-> priority]
     IN /\ emails' = [emails EXCEPT ![k] = updated]
        /\ processed_emails' = AppendProcessed(processed_emails, updated)
        /\ call_log' = Append(call_log, <<"score", email.id>>)
        /\ IF k = Len(emails)
           THEN pc' = "sort" /\ k' = k
           ELSE pc' = "extract" /\ k' = k + 1
  /\ attempt' = 0
  /\ wait_time' = InitialWait
  /\ gen_calls' = 0
  /\ gen_errors' = <<>>
  /\ slept' = 0
  /\ UNCHANGED <<analysis, sorted_emails>>
  /\ UNCHANGED <<paramVars, fetchVars, scoreVars>>

\* sorted_emails = sorted(processed_emails, ...)
Sort ==
  /\ pc = "sort"
  /\ sorted_emails' = SortedByPriority(processed_emails)
  /\ pc' = "done"
  /\ UNCHANGED <<emails, processed_emails, k, analysis, call_log>>
  /\ UNCHANGED <<paramVars, fetchVars, genVars, scoreVars>>

Next ==
  \/ ListPage
  \/ ListPageRaises
  \/ LoopExit
  \/ GetMessage
  \/ GetMessageRaises
  \/ NextPage
  \/ Return
  \/ Except
  \/ MainCheck
  \/ ExtractNoKey
  \/ Generate
  \/ GenerateRaises
  \/ Score
  \/ Sort

Spec == Init /\ [][Next]_vars

\* ------------------------------------------------------------------------
\* fetch_recent_emails on its own, from the call to the return

NextFetch ==
  \/ ListPage
  \/ ListPageRaises
  \/ LoopExit
  \/ GetMessage
  \/ GetMessageRaises
  \/ NextPage
  \/ Return
  \/ Except

SpecFetch == Init /\ [][NextFetch]_vars

\* the calls to the mail source return or raise, and the function runs on
FairSpecFetch == SpecFetch /\ WF_vars(NextFetch)

\* ------------------------------------------------------------------------
\* compute_priority on its own

ScoreSenders == {FromPwc, FromAcme, FromBoth, FromClient, FromOther, UnknownSender}
ScoreSubjects == {SubjReport, SubjUrgent, SubjCrushed, NoSubject}
ScoreInfos == {Strip(GenAsap), Strip(GenPlain), GenMany, KeyMissingText,
               ErrorResult("RateLimited"), ErrorResult("Other")}

InitScore ==
  /\ pc = "score_in"
  /\ sc_email \in [from : ScoreSenders, subject : ScoreSubjects]
  /\ sc_info \in ScoreInfos
  /\ sc_total = 0
  /\ desired_count = 1
  /\ max_fetch = 1
  /\ api_key = TRUE
  /\ matching_emails = <<>>
  /\ next_page_token = FALSE
  /\ fetched_messages = 0
  /\ messages = <<>>
  /\ result_token = FALSE
  /\ i = 1
  /\ get_calls = 0
  /\ first_err = 0
  /\ list_failed = FALSE
  /\ emails = <<>>
  /\ processed_emails = <<>>
  /\ k = 1
  /\ attempt = 0
  /\ wait_time = InitialWait
  /\ gen_calls = 0
  /\ gen_errors = <<>>
  /\ slept = 0
  /\ analysis = NoText
  /\ call_log = <<>>
  /\ sorted_emails = <<>>

\* total_score = compute_priority(email, extracted_info)
ComputePriority ==
  /\ pc = "score_in"
  /\ sc_total' = compute_priority(sc_email, sc_info)
  /\ pc' = "score_out"
  /\ UNCHANGED <<sc_email, sc_info>>
  /\ UNCHANGED <<paramVars, fetchVars, genVars, mainVars>>

NextScore == ComputePriority

SpecScore == InitScore /\ [][NextScore]_vars

\* ------------------------------------------------------------------------
\* Properties

\* the scan has reached its last statement: the normal return or the handler
FetchEnded == pc \in {"return", "except"}

\* fetch_recent_emails is running
InFetch == pc \in {"while", "for", "after_for", "return", "except"}

\* identifiers of a sequence of message records
Ids(seq) == {seq[j].id : j \in 1..Len(seq)}

\* position of the record with the given identifier
Pos(seq, id) == CHOOSE j \in 1..Len(seq) : seq[j].id = id

\* C1: during one fetch call the number of identifiers whose detail is
\* requested never exceeds max_fetch.
InspectsAtMostMaxScan == get_calls <= max_fetch

\* C2 as stated: after a hard failure of the list call the fetch returns
\* every message matched before the failure.
ListFailureKeepsPartial ==
  (list_failed /\ pc # "except") => emails = matching_emails

\* C2: after a hard failure of the list call the fetch returns the empty
\* list; what was matched before the failure is discarded.
ListFailureReturnsEmpty ==
  (list_failed /\ pc # "except") => emails = <<>>

\* the list call failed after a message had been matched, and the fetch
\* returned
ListFailureAfterMatch ==
  /\ list_failed
  /\ pc = "main_if"
  /\ Len(matching_emails) > 0
  /\ emails = <<>>

\* C3: at every point of the scan the matches collected so far number at
\* most desired_count and each lies in [start_datetime, end_datetime]; the
\* same holds of the returned list.
MatchesBoundedInWindow ==
  /\ Len(matching_emails) <= desired_count
  /\ \A j \in 1..Len(matching_emails) :
       /\ start_datetime <= matching_emails[j].received_at
       /\ matching_emails[j].received_at <= end_datetime
  /\ Len(emails) <= desired_count
  /\ \A j \in 1..Len(emails) :
       /\ start_datetime <= emails[j].received_at
       /\ emails[j].received_at <= end_datetime

\* the fetch returned desired_count messages, among them one received at
\* each end of the window
FullResultAtWindowEdges ==
  /\ pc = "main_if"
  /\ Len(emails) = desired_count
  /\ \E j \in 1..Len(emails) : emails[j].received_at = start_datetime
  /\ \E j \in 1..Len(emails) : emails[j].received_at = end_datetime

\* C4: with a key configured, an extract call whose every generation call
\* raised RateLimited made exactly max_retries = 3 calls and returned the
\* error text containing the reason; no call makes more than 3.
RetryExhaustion ==
  /\ gen_calls <= 3
  /\ (/\ pc = "score"
      /\ api_key
      /\ gen_calls > 0
      /\ Len(gen_errors) = gen_calls
      /\ \A j \in 1..Len(gen_errors) : gen_errors[j] = "RateLimited")
     => /\ gen_calls = 3
        /\ SubSeq(analysis, 1, Len(ErrorPrefix)) = ErrorPrefix
        /\ Contains(analysis, RateLimitedText)

\* an extract call returned after three RateLimited failures
ExhaustedByRateLimit ==
  /\ pc = "score"
  /\ api_key
  /\ gen_errors = <<"RateLimited", "RateLimited", "RateLimited">>
  /\ gen_calls = 3
  /\ slept = 6

\* C5: without a key every extract call returns the fixed placeholder,
\* makes no generation call and does not sleep.
NoKeyNoCalls ==
  ~api_key =>
     /\ gen_calls = 0
     /\ slept = 0
     /\ pc = "score" => analysis = KeyMissingText
     /\ \A j \in 1..Len(processed_emails) :
          processed_emails[j].analysis = KeyMissingText

\* two messages with different snippets were analysed without a key
NoKeyTwoAnalysed ==
  /\ ~api_key
  /\ pc = "score"
  /\ Len(processed_emails) = 1
  /\ processed_emails[1].snippet # emails[2].snippet
  /\ analysis = KeyMissingText

\* C6: the output holds the processed messages ordered by non-increasing
\* priority, and two messages of equal priority keep their fetch order.
SortedStable ==
  pc = "done" =>
     /\ Len(sorted_emails) = Len(emails)
     /\ Ids(sorted_emails) = Ids(emails)
     /\ \A a, b \in 1..Len(sorted_emails) :
          a < b =>
            /\ sorted_emails[a].priority >= sorted_emails[b].priority
            /\ sorted_emails[a].priority = sorted_emails[b].priority
                 => Pos(emails, sorted_emails[a].id) < Pos(emails, sorted_emails[b].id)

\* the output holds two messages of equal priority
SortedWithTie ==
  /\ pc = "done"
  /\ Len(sorted_emails) = 2
  /\ sorted_emails[1].priority = sorted_emails[2].priority

\* C7 as stated: once a detail fetch has failed, every in-window message
\* processed without an exception is still returned when the scan ends.
DetailFailureKeepsMatches ==
  [][(FetchEnded /\ first_err # 0) => emails' = matching_emails]_vars

\* C7: a failed detail fetch does not end the scan: when the fetch returns
\* normally after such a failure with fewer than desired_count matches,
\* every listed identifier has been inspected, and every in-window message
\* processed without an exception is returned.
DetailFailureSkipped ==
  [][(pc = "return" /\ first_err # 0) =>
        /\ emails' = matching_emails
        /\ Len(matching_emails) < desired_count => get_calls = fetched_messages]_vars

\* the fetch is about to return a message that was inspected after a failed
\* detail fetch
MatchAfterDetailFailure ==
  /\ pc = "return"
  /\ first_err # 0
  /\ \E j \in 1..Len(matching_emails) : matching_emails[j].id > first_err

\* C8: main calls analyze_email_openai and then compute_priority once for
\* each fetched message, in fetch order; the output has one entry for each
\* fetched message, also when an analysis is an error text; an empty fetch
\* gives an empty output and no call.
EachMessageOnceInOrder ==
  /\ Len(call_log) <= 2 * Len(emails)
  /\ \A j \in 1..Len(call_log) :
       call_log[j] = <<IF j % 2 = 1 THEN "extract" ELSE "score",
                       emails[(j + 1) \div 2].id>>
  /\ pc \in {"sort", "done"} =>
       /\ Len(call_log) = 2 * Len(emails)
       /\ Len(processed_emails) = Len(emails)
  /\ pc = "done" =>
       /\ Len(sorted_emails) = Len(emails)
       /\ Ids(sorted_emails) = Ids(emails)
  /\ (pc = "done" /\ emails = <<>>) =>
       /\ call_log = <<>>
       /\ sorted_emails = <<>>
       /\ gen_calls = 0

\* two messages were processed, one of them with an analysis that is the
\* error text
BatchWithFailedAnalysis ==
  /\ pc = "done"
  /\ Len(sorted_emails) = 2
  /\ \E j \in 1..2 : sorted_emails[j].analysis = ErrorPrefix \o RateLimitedText
  /\ \E j \in 1..2 : sorted_emails[j].analysis = Strip(GenAsap)

\* the keyword set K
K == {KwUrgent, KwAsap, KwImmediately, KwCritical, KwEmergency, KwDeadline, KwRush}

\* C9: the score is senderBonus + 2 * (members of K in the analysis text)
\* + 3 * (members of K in the subject), matching case-insensitively; the
\* bonus is 100 with the VIP marker in the sender, else 50 with a priority
\* domain, else 0.
ScoreFormula ==
  pc = "score_out" =>
    LET urgencyScore == Cardinality({w \in K : Contains(Lower(sc_info), w)})
        subjectUrgency == Cardinality({w \in K : Contains(Lower(sc_email.subject), w)})
        sender == Lower(sc_email.from)
        senderBonus == IF Contains(sender, VipMarker) THEN 100
                       ELSE IF Contains(sender, DomainAcme)
                               \/ Contains(sender, DomainImportant) THEN 50
                       ELSE 0
    IN /\ sc_total = senderBonus + urgencyScore * 2 + subjectUrgency * 3
       /\ (sc_email.from = FromPwc /\ sc_email.subject = SubjReport
             /\ sc_info = Strip(GenAsap)) => sc_total = 102

\* a sender with both the VIP marker and a priority domain was scored
ScoredVipWithDomain ==
  /\ pc = "score_out"
  /\ sc_email.from = FromBoth
  /\ sc_email.subject = SubjUrgent
  /\ sc_info = GenMany
  /\ sc_total = 114

\* C10 as stated: the scan ends only with desired_count matches, with
\* max_fetch identifiers listed, or without a continuation token.
EndsForThreeReasons ==
  FetchEnded =>
     \/ Len(matching_emails) >= desired_count
     \/ fetched_messages >= max_fetch
     \/ ~result_token

\* C10: the scan terminates, and it ends only with desired_count matches,
\* with max_fetch identifiers listed, without a continuation token, on an
\* empty page, or on a failure of the list call.
ScanEnds ==
  /\ [](FetchEnded =>
           \/ Len(matching_emails) >= desired_count
           \/ fetched_messages >= max_fetch
           \/ ~result_token
           \/ messages = <<>>
           \/ list_failed)
  /\ <>(~InFetch)

\* the scan goes on to a second page after a page without a match
SecondPageAfterNoMatch ==
  /\ pc = "for"
  /\ fetched_messages > Len(messages)
  /\ matching_emails = <<>>

====
